---- MODULE Spec2Model ----
(***************************************************************************)
(* The I2C target protocol engine (src/upy/i2c_slave.py, class I2CSlave)   *)
(* and the motor controller it drives (src/upy/motor_controller.py).       *)
(*                                                                         *)
(* The bus master and the hardware bus-target facility are the             *)
(* environment: the master writes whole command frames into the command    *)
(* window and reads the response window of the shared buffer; every        *)
(* completed transaction queues an event for the soft (deferred) IRQ       *)
(* handler, which runs later, in steps the master can interleave with.     *)
(*                                                                         *)
(* Numeric fields are written in tenths (3 is 0.3, 10 is 1.0, -10 is -1.0).*)
(***************************************************************************)
EXTENDS Integers, Sequences, FiniteSets, TLC

VARIABLES
    mem,        \* self._mem: the shared buffer, a sequence of MEMORY_SIZE bytes
    i2c,        \* self._i2c: TRUE when a hardware target is attached
    irqQueue,   \* events raised by the hardware, not yet handled (oldest first)
    pc,         \* position of _irq_handler: idle, clear, decode, send
    h,          \* locals of the current (or last finished) handler invocation
    resp,       \* the response frame _send_response is about to write
    log,        \* severities logged during the current (or last) invocation
    tx_count,   \* self._tx_count
    led,        \* self._led: the activity indicator
    mc,         \* the MotorController: enabled, closed and the four speeds
    lastRead,   \* master side: the bytes of its most recent read (<<>>: none)
    stale,      \* history: the response window predates the latest command
    readStale,  \* history: the most recent read returned a stale response
    lastGo,     \* history: values of the latest accepted GO still in force
    preDisable, \* history: speeds held just before the DISABLE now in force
    propagated, \* history: a fault left _irq_handler
    hw,         \* the hardware: targets attached, handlers registered, and the
                \* buffer it exposes once that is no longer self._mem
    life        \* the engine's lifecycle: new, enabled, clearing (inside
                \* disable(), after _clear_mem), disabled

vars == <<mem, i2c, irqQueue, pc, h, resp, log, tx_count, led, mc,
          lastRead, stale, readStale, lastGo, preDisable, propagated, hw, life>>

-----------------------------------------------------------------------------
(* Bounds of the model.                                                    *)

\* the master stops sending once this many commands have been counted
MaxTx == 4
\* events the hardware can hold for the deferred handler
MaxPending == 2

-----------------------------------------------------------------------------
(* Payload codec and command vocabulary (payload.py, command.py).          *)

PACKET_SIZE == 23
CMD_OFFSET == 0
RSP_OFFSET == PACKET_SIZE
MEMORY_SIZE == 2 * PACKET_SIZE

ERR_UNKNOWN == 1
ERR_PAYLOAD == 2
ERR_PROBE == 3
ERR_INTERNAL == 4

Zeros(n) == [i \in 1..n |-> 0]

SYNC_HEADER == <<122, 122>>

\* the verbs of the vocabulary and the four-byte code of each on the wire
Verbs == {"PING", "STOP", "GO", "REQUEST", "ENABLE", "DISABLE",
          "ACK", "RESPONSE", "ERROR"}

CodeBytes(v) ==
    CASE v = "PING"     -> <<80, 78, 32, 32>>
      [] v = "STOP"     -> <<83, 84, 32, 32>>
      [] v = "GO"       -> <<71, 79, 32, 32>>
      [] v = "REQUEST"  -> <<82, 81, 32, 32>>
      [] v = "ENABLE"   -> <<69, 78, 32, 32>>
      [] v = "DISABLE"  -> <<68, 83, 32, 32>>
      [] v = "ACK"      -> <<65, 75, 32, 32>>
      [] v = "RESPONSE" -> <<82, 83, 32, 32>>
      [] v = "ERROR"    -> <<69, 82, 32, 32>>
      [] OTHER          -> <<63, 63, 32, 32>>

\* the numeric values that occur, in tenths
Floats == {0, 3, 10, 0 - 10, 20, 30, 40}

\* a value that stands for any four bytes that encode none of Floats
Unrepresented == 9999

\* little-endian IEEE-754 single precision
FloatBytes(x) ==
    CASE x = 0      -> <<0, 0, 0, 0>>
      [] x = 3      -> <<154, 153, 153, 62>>
      [] x = 10     -> <<0, 0, 128, 63>>
      [] x = 0 - 10 -> <<0, 0, 128, 191>>
      [] x = 20     -> <<0, 0, 0, 64>>
      [] x = 30     -> <<0, 0, 64, 64>>
      [] x = 40     -> <<0, 0, 128, 64>>
      [] OTHER      -> <<0, 0, 192, 127>>

FloatOf(b) ==
    IF \E x \in Floats : FloatBytes(x) = b
    THEN CHOOSE x \in Floats : FloatBytes(x) = b
    ELSE Unrepresented

RECURSIVE SumBytes(_)
SumBytes(s) == IF s = <<>> THEN 0 ELSE Head(s) + SumBytes(Tail(s))

\* the check byte over everything that precedes it
Checksum(s) == SumBytes(s) % 256

\* Payload(command, pfwd, sfwd, paft, saft).to_bytes()
to_bytes(p) ==
    LET body == SYNC_HEADER \o CodeBytes(p.verb) \o FloatBytes(p.f[1])
                  \o FloatBytes(p.f[2]) \o FloatBytes(p.f[3]) \o FloatBytes(p.f[4])
    IN  body \o <<Checksum(body)>>

\* Payload.from_bytes(b): the decoded frame, or the ValueError it raises
from_bytes(b) ==
    IF Len(b) # PACKET_SIZE
    THEN [ok |-> FALSE, err |-> "invalid packet size"]
    ELSE IF SubSeq(b, 1, 2) # SYNC_HEADER
    THEN [ok |-> FALSE, err |-> "invalid sync header"]
    ELSE IF b[PACKET_SIZE] # Checksum(SubSeq(b, 1, PACKET_SIZE - 1))
    THEN [ok |-> FALSE, err |-> "checksum mismatch"]
    ELSE [ok |-> TRUE, err |-> "",
          code |-> SubSeq(b, 3, 6),
          f |-> <<FloatOf(SubSeq(b, 7, 10)), FloatOf(SubSeq(b, 11, 14)),
                  FloatOf(SubSeq(b, 15, 18)), FloatOf(SubSeq(b, 19, 22))>>]

\* Command.from_code(code): the verb with that code, NONE when there is none
from_code(code) ==
    IF \E v \in Verbs : CodeBytes(v) = code
    THEN CHOOSE v \in Verbs : CodeBytes(v) = code
    ELSE "NONE"

Frame(v, a, b, c, d) == [verb |-> v, f |-> <<a, b, c, d>>]

NoFrame == [verb |-> "NONE", f |-> <<0, 0, 0, 0>>]

-----------------------------------------------------------------------------
(* The shared buffer.                                                      *)

CmdWindow(m) == SubSeq(m, CMD_OFFSET + 1, CMD_OFFSET + PACKET_SIZE)

RspWindow(m) == SubSeq(m, RSP_OFFSET + 1, RSP_OFFSET + PACKET_SIZE)

\* m[off:off + len(bytes)] = bytes
SliceAssign(m, off, bytes) ==
    [i \in 1..Len(m) |->
        IF i > off /\ i <= off + Len(bytes) THEN bytes[i - off] ELSE m[i]]

-----------------------------------------------------------------------------
(* The motor controller (motor_controller.py).                             *)

ZeroSpeeds == <<0, 0, 0, 0>>

\* MotorController.__init__: disabled, not closed, all four speeds zero
MotorInit == [enabled |-> FALSE, closed |-> FALSE, s |-> ZeroSpeeds]

get_speeds(m) == m.s

\* Component.enable / disable / close: the lifecycle flags
ComponentEnable(m) == IF m.closed THEN m ELSE [m EXCEPT !.enabled = TRUE]

ComponentDisable(m) == [m EXCEPT !.enabled = FALSE]

ComponentClose(m) == [m EXCEPT !.closed = TRUE]

\* stop() without the enabled guard
MotorStopUnguarded(m) == [mc |-> [m EXCEPT !.s = ZeroSpeeds], r |-> "OKAY"]

\* stop() answering OKAY without zeroing the speeds
MotorStopKeepsSpeeds(m) ==
    IF ~m.enabled
    THEN [mc |-> m, r |-> "FAIL"]
    ELSE [mc |-> m, r |-> "OKAY"]

\* MotorController.stop(): the controller afterwards and the Response returned
MotorStop(m) ==
    IF ~m.enabled
    THEN [mc |-> m, r |-> "FAIL"]
    ELSE [mc |-> [m EXCEPT !.s = ZeroSpeeds], r |-> "OKAY"]

\* go() storing the two aft speeds in each other's place
MotorGoSwapped(m, f) ==
    IF ~m.enabled
    THEN [mc |-> m, r |-> "FAIL"]
    ELSE [mc |-> [m EXCEPT !.s = <<f[1], f[2], f[4], f[3]>>], r |-> "OKAY"]

\* MotorController.go(pfwd, sfwd, paft, saft)
MotorGo(m, f) ==
    IF ~m.enabled
    THEN [mc |-> m, r |-> "FAIL"]
    ELSE [mc |-> [m EXCEPT !.s = <<f[1], f[2], f[3], f[4]>>], r |-> "OKAY"]

\* enable() that also resets the speeds
MotorEnableResets(m) == [ComponentEnable(m) EXCEPT !.s = ZeroSpeeds]

\* MotorController.enable()
MotorEnable(m) == IF ~m.enabled THEN ComponentEnable(m) ELSE m

\* disable() without the forced stop()
MotorDisableNoStop(m) == IF m.enabled THEN ComponentDisable(m) ELSE m

\* MotorController.disable(): stop() first, then the lifecycle transition
MotorDisable(m) ==
    IF m.enabled THEN ComponentDisable(MotorStop(m).mc) ELSE m

\* MotorController.close()
MotorClose(m) ==
    IF ~m.closed THEN ComponentClose(MotorDisable(m)) ELSE m

-----------------------------------------------------------------------------
(* The command handlers of I2CSlave. Each yields the controller            *)
(* afterwards, the response handed to _send_response, the severities it    *)
(* logs and the Response the controller returned ("" when none was asked). *)

\* _handle_error(error_code, message): logs at error severity, then responds
handle_error(m, code) ==
    [mc |-> m, resp |-> Frame("ERROR", 10 * code, 0, 0, 0),
     log |-> <<"error">>, r |-> ""]

\* PING answered with zero fields
handle_ping_zeros(m) ==
    [mc |-> m, resp |-> Frame("PING", 0, 0, 0, 0), log |-> <<>>, r |-> ""]

handle_ping(m) ==
    [mc |-> m, resp |-> Frame("PING", 3, 3, 3, 3), log |-> <<>>, r |-> ""]

handle_stop(m) ==
    LET res == MotorStop(m)
    IN  IF res.r = "OKAY"
        THEN LET sp == get_speeds(res.mc)
             IN  [mc |-> res.mc, resp |-> Frame("ACK", sp[1], sp[2], sp[3], sp[4]),
                  log |-> <<>>, r |-> res.r]
        ELSE [mc |-> res.mc, resp |-> Frame("ERROR", 0, 0, 0, 0),
              log |-> <<>>, r |-> res.r]

handle_go(m, payload) ==
    LET res == MotorGo(m, payload.f)
    IN  IF res.r = "OKAY"
        THEN LET sp == get_speeds(res.mc)
             IN  [mc |-> res.mc, resp |-> Frame("ACK", sp[1], sp[2], sp[3], sp[4]),
                  log |-> <<>>, r |-> res.r]
        ELSE [mc |-> res.mc, resp |-> Frame("ERROR", 0, 0, 0, 0),
              log |-> <<>>, r |-> res.r]

handle_request(m) ==
    LET sp == get_speeds(m)
    IN  [mc |-> m, resp |-> Frame("RESPONSE", sp[1], sp[2], sp[3], sp[4]),
         log |-> <<"info">>, r |-> ""]

handle_enable(m) ==
    [mc |-> MotorEnable(m), resp |-> Frame("ACK", 0, 0, 0, 0),
     log |-> <<"info">>, r |-> ""]

\* DISABLE acknowledged without the controller being disabled
handle_disable_ack_only(m) ==
    [mc |-> m, resp |-> Frame("ACK", 0, 0, 0, 0), log |-> <<"info">>, r |-> ""]

handle_disable(m) ==
    [mc |-> MotorDisable(m), resp |-> Frame("ACK", 0, 0, 0, 0),
     log |-> <<"info">>, r |-> ""]

\* the chain with the final else reporting the malformed-payload code
DispatchWrongCode(m, payload) ==
    LET command == from_code(payload.code)
    IN  CASE command = "PING"    -> handle_ping(m)
          [] command = "STOP"    -> handle_stop(m)
          [] command = "GO"      -> handle_go(m, payload)
          [] command = "REQUEST" -> handle_request(m)
          [] command = "ENABLE"  -> handle_enable(m)
          [] command = "DISABLE" -> handle_disable(m)
          [] OTHER               -> handle_error(m, ERR_PAYLOAD)

\* the if / elif chain of _irq_handler over the decoded command
Dispatch(m, payload) ==
    LET command == from_code(payload.code)
    IN  CASE command = "PING"    -> handle_ping(m)
          [] command = "STOP"    -> handle_stop(m)
          [] command = "GO"      -> handle_go(m, payload)
          [] command = "REQUEST" -> handle_request(m)
          [] command = "ENABLE"  -> handle_enable(m)
          [] command = "DISABLE" -> handle_disable(m)
          [] OTHER               -> handle_error(m, ERR_UNKNOWN)

\* the branch with one code for both kinds of decode failure
OnValueErrorOneCode(m, msg) ==
    IF msg # "invalid sync header"
    THEN LET e == handle_error(m, ERR_PROBE)
         IN  [e EXCEPT !.log = <<"error">> \o e.log]
    ELSE LET e == handle_error(m, ERR_PROBE)
         IN  [e EXCEPT !.log = <<"warning">> \o e.log]

\* the except ValueError branch: the sync header case is logged as a warning
OnValueError(m, msg) ==
    IF msg # "invalid sync header"
    THEN LET e == handle_error(m, ERR_PAYLOAD)
         IN  [e EXCEPT !.log = <<"error">> \o e.log]
    ELSE LET e == handle_error(m, ERR_PROBE)
         IN  [e EXCEPT !.log = <<"warning">> \o e.log]

\* the except Exception branch
OnException(m) ==
    LET e == handle_error(m, ERR_INTERNAL)
    IN  [e EXCEPT !.log = <<"error">> \o e.log]

-----------------------------------------------------------------------------
(* State after construction.                                               *)

\* the locals of _irq_handler before it has run
NoCall ==
    [flags |-> {}, kind |-> "none", verb |-> "NONE", f |-> ZeroSpeeds,
     r |-> "", wasEnabled |-> FALSE, before |-> ZeroSpeeds,
     count |-> FALSE, fresh |-> FALSE, done |-> FALSE,
     own |-> FALSE, afterStop |-> FALSE]

NoGo == <<>>

\* no hardware target: nothing attached, no handler registered
NoHardware == [targets |-> 0, handlers |-> 0, split |-> FALSE, buf |-> <<>>]

NoDisable == [set |-> FALSE, s |-> ZeroSpeeds]

\* I2CSlave.__init__: a zeroed buffer whose response window then receives
\* the default ACK frame; no hardware target yet
Init ==
    /\ mem = SliceAssign(Zeros(MEMORY_SIZE), RSP_OFFSET,
                         to_bytes(Frame("ACK", 0, 0, 0, 0)))
    /\ i2c = FALSE
    /\ irqQueue = <<>>
    /\ pc = "idle"
    /\ h = NoCall
    /\ resp = NoFrame
    /\ log = <<>>
    /\ tx_count = 0
    /\ led = FALSE
    /\ mc = MotorInit
    /\ lastRead = <<>>
    /\ stale = FALSE
    /\ readStale = FALSE
    /\ lastGo = NoGo
    /\ preDisable = NoDisable
    /\ propagated = FALSE
    /\ hw = NoHardware
    /\ life = "new"

-----------------------------------------------------------------------------
(* The engine's lifecycle.                                                 *)

\* application code runs only while no handler invocation is under way
\* (the handler runs to completion), and one call at a time
MainThread == pc = "idle" /\ life # "clearing"

\* I2CSlave.enable(): attach self._mem to the hardware and register the
\* handler; nothing happens when a target is already held
enable ==
    /\ MainThread
    /\ IF i2c
       THEN UNCHANGED <<i2c, hw, life>>
       ELSE /\ i2c' = TRUE
            /\ hw' = [targets |-> hw.targets + 1, handlers |-> hw.handlers + 1,
                      split |-> FALSE, buf |-> <<>>]
            /\ life' = "enabled"
    /\ UNCHANGED <<mem, irqQueue, pc, h, resp, log, tx_count, led, mc,
                   lastRead, stale, readStale, lastGo, preDisable, propagated>>

\* _clear_mem(): self._mem is bound to a new zeroed bytearray
clear_mem(m) == Zeros(MEMORY_SIZE)

\* I2CSlave.disable(), lines 98-99: with a target held, _clear_mem() runs
\* first; the hardware target keeps the bytearray it was given, of which
\* hw.buf follows the response window (no code reads its command window)
DisableClear ==
    /\ MainThread
    /\ i2c
    /\ mem' = clear_mem(mem)
    /\ hw' = [hw EXCEPT !.split = TRUE, !.buf = mem]
    /\ life' = "clearing"
    /\ h' = NoCall
    /\ UNCHANGED <<i2c, irqQueue, pc, resp, log, tx_count, led, mc, lastRead,
                   stale, readStale, lastGo, preDisable, propagated>>

\* I2CSlave.disable(), lines 100-102: deinit() detaches the target and its
\* handler, events not yet delivered are dropped, self._i2c becomes None;
\* the histories of the handler and of the master's reads start afresh
DisableDeinit ==
    /\ pc = "idle"
    /\ life = "clearing"
    /\ hw' = [targets |-> hw.targets - 1, handlers |-> hw.handlers - 1,
              split |-> FALSE, buf |-> <<>>]
    /\ i2c' = FALSE
    /\ irqQueue' = <<>>
    /\ life' = "disabled"
    /\ h' = NoCall
    /\ lastRead' = <<>>
    /\ stale' = FALSE
    /\ readStale' = FALSE
    /\ UNCHANGED <<mem, pc, resp, log, tx_count, led, mc, lastGo, preDisable,
                   propagated>>

\* I2CSlave.disable() without a target held: nothing happens
DisableIdle ==
    /\ MainThread
    /\ ~i2c
    /\ UNCHANGED vars

-----------------------------------------------------------------------------
(* The bus master, through the hardware target.                            *)

\* the values a GO carries
GoArgs == {<<10, 10, 0 - 10, 0 - 10>>, <<3, 0, 0 - 10, 10>>}

\* what the master sends: well-formed frames of every inbound verb, of an
\* outbound verb and of a code no verb has, and two malformed frames
MasterCmds ==
    {[kind |-> "frame", p |-> Frame(v, 0, 0, 0, 0)] :
        v \in {"PING", "STOP", "REQUEST", "ENABLE", "DISABLE", "ACK", "BOGUS"}}
    \cup {[kind |-> "frame", p |-> Frame("GO", a[1], a[2], a[3], a[4])] : a \in GoArgs}
    \cup {[kind |-> k, p |-> Frame("PING", 0, 0, 0, 0)] : k \in {"badsync", "badsum"}}

MasterBytes(c) ==
    LET good == to_bytes(c.p)
    IN  CASE c.kind = "badsync" -> SliceAssign(good, 0, <<0, 0>>)
          [] c.kind = "badsum"  ->
                SliceAssign(good, PACKET_SIZE - 1, <<(good[PACKET_SIZE] + 1) % 256>>)
          [] OTHER              -> good

\* the buffer the hardware target reads and writes for the master
HwMem == IF hw.split THEN hw.buf ELSE mem

PendingWrites ==
    Cardinality({i \in 1..Len(irqQueue) : "END_WRITE" \in irqQueue[i]})

\* commands that may still be counted: queued ones and the one being handled
InFlight == PendingWrites + (IF pc = "idle" THEN 0 ELSE 1)

\* the master writes one command frame into the command window; the
\* hardware raises end-of-write when the transaction completes; once
\* self._mem is another bytearray the bytes land in the old one
MasterWrite(c) ==
    /\ hw.targets > 0
    /\ Len(irqQueue) < MaxPending
    /\ tx_count + InFlight < MaxTx
    /\ mem' = IF hw.split THEN mem
              ELSE SliceAssign(mem, CMD_OFFSET, MasterBytes(c))
    /\ irqQueue' = IF hw.handlers > 0 THEN Append(irqQueue, {"END_WRITE"})
                   ELSE irqQueue
    /\ h' = [h EXCEPT !.fresh = FALSE]
    /\ stale' = TRUE
    /\ lastRead' = <<>>
    /\ readStale' = FALSE
    /\ UNCHANGED <<i2c, pc, resp, log, tx_count, led, mc, lastGo, preDisable,
                   propagated, hw, life>>

\* the master reads the response window; the hardware raises end-of-read
MasterRead ==
    /\ hw.targets > 0
    /\ Len(irqQueue) < MaxPending
    /\ lastRead' = RspWindow(HwMem)
    /\ readStale' = (stale /\ RspWindow(HwMem) # Zeros(PACKET_SIZE))
    /\ irqQueue' = IF hw.handlers > 0 THEN Append(irqQueue, {"END_READ"})
                   ELSE irqQueue
    /\ UNCHANGED <<mem, i2c, pc, h, resp, log, tx_count, led, mc, stale, lastGo,
                   preDisable, propagated, hw, life>>

-----------------------------------------------------------------------------
(* _irq_handler, in the steps the master can interleave with.              *)

\* line 108: the handler is entered for the oldest event and reads its flags;
\* a fault here is outside the try block and leaves the handler
\* the test taking any flag for end-of-write
HasAnyFlag(flags) == flags # {}

\* line 109: flags & I2CTarget.IRQ_END_WRITE
HasEndWrite(flags) == "END_WRITE" \in flags

\* history: the command handled before the invocation now starting was a
\* STOP the controller accepted; events without a command in between do
\* not count
AfterStop ==
    IF h.kind \in {"ok", "sync", "value", "fault"}
    THEN h.kind = "ok" /\ h.verb = "STOP" /\ h.r = "OKAY"
    ELSE h.afterStop

IrqEnter(fault) ==
    /\ pc = "idle"
    /\ irqQueue # <<>>
    /\ irqQueue' = Tail(irqQueue)
    /\ log' = <<>>
    /\ resp' = NoFrame
    /\ IF fault = "flags"
       THEN /\ propagated' = TRUE
            /\ h' = [NoCall EXCEPT !.kind = "raised", !.done = TRUE,
                                   !.afterStop = AfterStop]
            /\ pc' = "idle"
       ELSE /\ propagated' = propagated
            /\ h' = [NoCall EXCEPT !.flags = Head(irqQueue),
                                   !.done = ~HasEndWrite(Head(irqQueue)),
                                   !.afterStop = AfterStop]
            /\ pc' = IF HasEndWrite(Head(irqQueue)) THEN "clear" ELSE "idle"
    /\ UNCHANGED <<mem, i2c, tx_count, led, mc, lastRead, stale, readStale,
                   lastGo, preDisable, hw, life>>

\* the clear applied at the command window's offset
ClearedWrongWindow(m) == SliceAssign(m, CMD_OFFSET, Zeros(PACKET_SIZE))

\* line 111: zero the response window
ClearedWindow(m) == SliceAssign(m, RSP_OFFSET, Zeros(PACKET_SIZE))

IrqClear ==
    /\ pc = "clear"
    /\ mem' = ClearedWindow(mem)
    /\ pc' = "decode"
    /\ UNCHANGED <<i2c, irqQueue, h, resp, log, tx_count, led, mc, lastRead,
                   stale, readStale, lastGo, preDisable, propagated, hw, life>>

\* lines 113-151 up to the call of _send_response: decode the command window
\* and dispatch, or take one of the except branches
Handle(m, bytes, fault) ==
    IF fault = "body"
    THEN [out |-> OnException(m), kind |-> "fault", verb |-> "NONE", f |-> ZeroSpeeds]
    ELSE LET p == from_bytes(bytes)
         IN  IF p.ok
             THEN [out |-> Dispatch(m, p), kind |-> "ok",
                   verb |-> from_code(p.code), f |-> p.f]
             ELSE [out |-> OnValueError(m, p.err),
                   kind |-> IF p.err = "invalid sync header" THEN "sync" ELSE "value",
                   verb |-> "NONE", f |-> ZeroSpeeds]

\* the history of accepted GO values: any GO, STOP or DISABLE ends the old one
NextLastGo(res) ==
    IF res.kind = "ok" /\ res.verb \in {"GO", "STOP", "DISABLE"}
    THEN IF res.verb = "GO" /\ res.out.r = "OKAY" THEN res.f ELSE NoGo
    ELSE lastGo

NextPreDisable(res) ==
    IF res.kind = "ok" /\ res.verb = "DISABLE" THEN [set |-> TRUE, s |-> mc.s]
    ELSE IF res.kind = "ok" /\ res.verb = "ENABLE" THEN NoDisable
    ELSE preDisable

IrqDecode(fault) ==
    /\ pc = "decode"
    /\ LET res == Handle(mc, CmdWindow(mem), fault)
       IN  /\ mc' = res.out.mc
           /\ resp' = res.out.resp
           /\ log' = log \o res.out.log
           /\ h' = [h EXCEPT !.kind = res.kind, !.verb = res.verb, !.f = res.f,
                             !.r = res.out.r, !.wasEnabled = mc.enabled,
                             !.before = mc.s, !.count = (res.kind = "ok"),
                             !.fresh = TRUE, !.own = (PendingWrites = 0)]
           /\ lastGo' = NextLastGo(res)
           /\ preDisable' = NextPreDisable(res)
    /\ pc' = "send"
    /\ UNCHANGED <<mem, i2c, irqQueue, tx_count, led, lastRead, stale, readStale,
                   propagated, hw, life>>

\* the response written at the command window's offset
send_response_at_cmd(m, frame, fault) ==
    IF fault = "send" THEN m ELSE SliceAssign(m, CMD_OFFSET, to_bytes(frame))

\* _send_response: encode and write the frame in one slice assignment; a
\* fault inside is caught and logged there, and nothing is written
send_response(m, frame, fault) ==
    IF fault = "send" THEN m ELSE SliceAssign(m, RSP_OFFSET, to_bytes(frame))

\* the end of the handler: the response is written, and after a dispatch
\* (lines 135-136) the transaction is counted and the indicator toggled
IrqSend(fault) ==
    /\ pc = "send"
    /\ mem' = send_response(mem, resp, fault)
    /\ log' = IF fault = "send" THEN log \o <<"error">> ELSE log
    /\ tx_count' = IF h.count THEN tx_count + 1 ELSE tx_count
    /\ led' = IF h.count THEN ~led ELSE led
    /\ h' = [h EXCEPT !.done = TRUE]
    /\ stale' = IF fault = "send" THEN stale ELSE ~h.fresh
    /\ pc' = "idle"
    /\ UNCHANGED <<i2c, irqQueue, resp, mc, lastRead, readStale, lastGo,
                   preDisable, propagated, hw, life>>

-----------------------------------------------------------------------------
(* Specifications.                                                         *)

\* the faults the environment can inject into one handler step
Faults == {"none", "flags", "body", "send"}

\* normal operation: no library call raises
Next ==
    \/ enable
    \/ DisableClear
    \/ DisableDeinit
    \/ DisableIdle
    \/ \E c \in MasterCmds : MasterWrite(c)
    \/ MasterRead
    \/ IrqEnter("none")
    \/ IrqClear
    \/ IrqDecode("none")
    \/ IrqSend("none")

Spec == Init /\ [][Next]_vars

\* operation under faults raised by the calls the handler makes
FaultNext ==
    \/ enable
    \/ \E c \in MasterCmds : MasterWrite(c)
    \/ MasterRead
    \/ \E x \in Faults : IrqEnter(x)
    \/ IrqClear
    \/ \E x \in Faults : IrqDecode(x)
    \/ \E x \in Faults : IrqSend(x)

FaultSpec == Init /\ [][FaultNext]_vars

-----------------------------------------------------------------------------
(* The motor controller on its own, called in any order.                   *)

\* the speeds a caller passes to go()
SpeedVals == {0, 3, 10, 0 - 10}

\* the record of one call: which method, and whether it found the
\* controller enabled
Called(verb) ==
    [NoCall EXCEPT !.kind = "call", !.verb = verb, !.wasEnabled = mc.enabled,
                   !.done = TRUE]

CallFrame == <<mem, i2c, irqQueue, pc, resp, log, tx_count, led, lastRead,
               stale, readStale, lastGo, propagated, hw, life>>

CallEnable ==
    /\ mc' = MotorEnable(mc)
    /\ h' = Called("ENABLE")
    /\ UNCHANGED preDisable
    /\ UNCHANGED CallFrame

\* preDisable keeps the speeds the controller held when it was switched off
CallDisable ==
    /\ mc' = MotorDisable(mc)
    /\ h' = Called("DISABLE")
    /\ preDisable' = IF mc.enabled \/ ~preDisable.set
                     THEN [set |-> TRUE, s |-> mc.s]
                     ELSE preDisable
    /\ UNCHANGED CallFrame

\* an accepted go() ends the history of the last disable
CallGo(f) ==
    /\ mc' = MotorGo(mc, f).mc
    /\ h' = [Called("GO") EXCEPT !.r = MotorGo(mc, f).r]
    /\ preDisable' = IF MotorGo(mc, f).r = "OKAY" THEN NoDisable ELSE preDisable
    /\ UNCHANGED CallFrame

CallStop ==
    /\ mc' = MotorStop(mc).mc
    /\ h' = [Called("STOP") EXCEPT !.r = MotorStop(mc).r]
    /\ UNCHANGED preDisable
    /\ UNCHANGED CallFrame

CallClose ==
    /\ mc' = MotorClose(mc)
    /\ h' = Called("CLOSE")
    /\ UNCHANGED preDisable
    /\ UNCHANGED CallFrame

MotorNext ==
    \/ CallEnable
    \/ CallDisable
    \/ \E f \in SpeedVals \X SpeedVals \X SpeedVals \X SpeedVals : CallGo(f)
    \/ CallStop
    \/ CallClose

MotorSpec == Init /\ [][MotorNext]_vars

-----------------------------------------------------------------------------
(* What the master would decode from the response window.                  *)

Responded(verb, a, b, c, d) ==
    LET p == from_bytes(RspWindow(mem))
    IN  /\ p.ok
        /\ from_code(p.code) = verb
        /\ p.f = <<a, b, c, d>>

WindowZero == RspWindow(mem) = Zeros(PACKET_SIZE)

\* the handler has finished an end-of-write event whose command decoded to verb
Finished(verb) == h.done /\ h.kind = "ok" /\ h.verb = verb

\* the handler has dispatched such a command and is about to respond
Dispatched(verb) == pc = "send" /\ h.kind = "ok" /\ h.verb = verb

-----------------------------------------------------------------------------
(* Claims.                                                                 *)

\* C1: a read of the response window made after the master completed a
\* command returns all-zero bytes or the response to that command, never
\* an older response.
C1_ReadIsZeroOrCurrent ==
    lastRead # <<>> => (lastRead = Zeros(PACKET_SIZE) \/ ~readStale)

C3_GoEchoedAndRequested ==
    /\ (Dispatched("GO") /\ h.wasEnabled) =>
          /\ h.r = "OKAY"
          /\ resp = Frame("ACK", h.f[1], h.f[2], h.f[3], h.f[4])
    /\ (Finished("GO") /\ h.wasEnabled) =>
          Responded("ACK", h.f[1], h.f[2], h.f[3], h.f[4])
    /\ (Dispatched("REQUEST") /\ lastGo # NoGo) =>
          resp = Frame("RESPONSE", lastGo[1], lastGo[2], lastGo[3], lastGo[4])
    /\ (Finished("REQUEST") /\ lastGo # NoGo) =>
          Responded("RESPONSE", lastGo[1], lastGo[2], lastGo[3], lastGo[4])

\* a REQUEST has been answered while the values of an accepted GO are in force
C3_Witness ==
    /\ Finished("REQUEST")
    /\ lastGo = <<3, 0, 0 - 10, 10>>
    /\ Responded("RESPONSE", 3, 0, 0 - 10, 10)

C5_SpeedsAsBeforeDisable ==
    ((Dispatched("STOP") \/ Dispatched("GO")) /\ preDisable.set) =>
        /\ h.r = "FAIL"
        /\ resp.verb = "ERROR"
        /\ mc.s = preDisable.s

\* C5: after a DISABLE, a STOP or GO fails, is answered by ERROR, and leaves
\* the speeds equal to those held just before that STOP or GO, which are the
\* zeros the disable forced.
C5_SpeedsAsAfterDisable ==
    ((Dispatched("STOP") \/ Dispatched("GO")) /\ preDisable.set) =>
        /\ h.r = "FAIL"
        /\ resp.verb = "ERROR"
        /\ mc.s = h.before
        /\ mc.s = ZeroSpeeds

\* a GO is rejected after a DISABLE that found nonzero speeds
C5_Witness ==
    /\ Dispatched("GO")
    /\ preDisable.set
    /\ preDisable.s # ZeroSpeeds
    /\ h.r = "FAIL"

\* C6: whenever the motor controller is not enabled its four speeds are
\* zero, so an enable() after a disable() with no accepted go() in between
\* leaves them zero.
C6_DisabledMeansZero ==
    /\ ~mc.enabled => mc.s = ZeroSpeeds
    /\ (h.kind = "call" /\ h.verb = "ENABLE" /\ preDisable.set) => mc.s = ZeroSpeeds

\* the controller is enabled again after a disable() that found it moving
C6_Witness ==
    /\ h.kind = "call"
    /\ h.verb = "ENABLE"
    /\ mc.enabled
    /\ preDisable.set
    /\ preDisable.s # ZeroSpeeds

\* C7: a command window with a bad sync header is answered by an ERROR frame
\* with the probe code, with a warning logged and nothing logged at error
\* severity.
C7_ProbeLogsNoError ==
    (h.done /\ h.kind = "sync") =>
        /\ Responded("ERROR", 10 * ERR_PROBE, 0, 0, 0)
        /\ \E i \in 1..Len(log) : log[i] = "warning"
        /\ \A i \in 1..Len(log) : log[i] # "error"

\* C8: any other decode failure is logged at error severity and answered by
\* an ERROR frame whose first field is the malformed-payload code, and the
\* four error codes are pairwise distinct.
C8_PayloadErrorReported ==
    /\ (pc = "send" /\ h.kind = "value") =>
          resp = Frame("ERROR", 10 * ERR_PAYLOAD, 0, 0, 0)
    /\ (h.done /\ h.kind = "value") =>
          /\ Responded("ERROR", 10 * ERR_PAYLOAD, 0, 0, 0)
          /\ \E i \in 1..Len(log) : log[i] = "error"
    /\ (h.done /\ h.kind = "sync") => ~Responded("ERROR", 10 * ERR_PAYLOAD, 0, 0, 0)
    /\ (h.done /\ h.kind = "ok" /\ resp.verb = "ERROR") =>
          ~Responded("ERROR", 10 * ERR_PAYLOAD, 0, 0, 0)
    /\ Cardinality({ERR_UNKNOWN, ERR_PAYLOAD, ERR_PROBE, ERR_INTERNAL}) = 4

\* a frame with a good header and a bad check byte has been answered
C8_Witness ==
    /\ h.done
    /\ h.kind = "value"
    /\ Responded("ERROR", 10 * ERR_PAYLOAD, 0, 0, 0)

\* C9: a decoded frame whose verb is none of the six inbound verbs is
\* answered by an ERROR frame with the unknown-command code, no fault
\* leaves the handler, and the controller's flag and speeds are unchanged.
C9_UnknownVerbReported ==
    (h.done /\ h.kind = "ok"
       /\ h.verb \notin {"PING", "STOP", "GO", "REQUEST", "ENABLE", "DISABLE"}) =>
        /\ Responded("ERROR", 10 * ERR_UNKNOWN, 0, 0, 0)
        /\ ~propagated
        /\ mc.enabled = h.wasEnabled
        /\ mc.s = h.before

\* a frame with a code no verb has was answered while the motors were running
C9_Witness ==
    /\ h.done
    /\ h.kind = "ok"
    /\ h.verb = "NONE"
    /\ mc.enabled
    /\ mc.s # ZeroSpeeds
    /\ Responded("ERROR", 10 * ERR_UNKNOWN, 0, 0, 0)

\* C10: no fault raised while reading the flags, decoding or dispatching
\* leaves the handler, and after an unexpected fault the response window
\* holds an ERROR frame with the internal-fault code.
C10_FaultsContained ==
    /\ ~propagated
    /\ (h.done /\ h.kind = "fault") => Responded("ERROR", 10 * ERR_INTERNAL, 0, 0, 0)

\* C11: when the handler has finished an end-of-write event the response
\* window holds a complete frame, also after a fault inside _send_response.
C11_AlwaysAnswered ==
    (h.done /\ HasEndWrite(h.flags)) => from_bytes(RspWindow(mem)).ok

\* C12: the transaction counter never decreases and every end-of-write
\* event handled to its end increments it by exactly one.
C12_CountsEveryWrite ==
    [][/\ tx_count' >= tx_count
       /\ (pc = "send" /\ pc' = "idle") => tx_count' = tx_count + 1]_vars

\* C13: each handler execution decodes the command whose end-of-write event
\* it was started for: no later write of the master had replaced it in the
\* command window when it was decoded (the hardware sharing self._mem).
C13_ProcessesOwnCommand ==
    (HasEndWrite(h.flags) /\ h.kind \in {"ok", "sync", "value"} /\ ~hw.split) =>
        h.own

\* C14: at most one hardware target is attached and one handler registered,
\* and after disable() the engine holds no target, none is attached and the
\* shared buffer is all-zero.
C14_DetachedAndZeroed ==
    /\ hw.targets <= 1
    /\ hw.handlers <= 1
    /\ life = "disabled" =>
        /\ ~i2c
        /\ hw.targets = 0
        /\ mem = Zeros(MEMORY_SIZE)

\* C20: whenever a hardware target is attached it exposes self._mem, and no
\* handler invocation runs while the hardware exposes another buffer.
C20_HardwareSharesMem ==
    /\ hw.targets > 0 => ~hw.split
    /\ pc # "idle" => ~hw.split

\* C15: a STOP processed while the controller is enabled zeroes the four
\* speeds, is answered by an ACK frame of four zeros and leaves the
\* controller enabled; a REQUEST processed next is answered by a RESPONSE
\* frame of four zeros.
C15_StopZeroesAndAcks ==
    /\ (Dispatched("STOP") /\ h.wasEnabled) =>
        /\ h.r = "OKAY"
        /\ mc.s = ZeroSpeeds
        /\ mc.enabled
        /\ resp = Frame("ACK", 0, 0, 0, 0)
    /\ (Finished("STOP") /\ h.wasEnabled) =>
        /\ mc.s = ZeroSpeeds
        /\ mc.enabled
        /\ Responded("ACK", 0, 0, 0, 0)
    /\ (Dispatched("REQUEST") /\ h.afterStop) =>
        resp = Frame("RESPONSE", 0, 0, 0, 0)
    /\ (Finished("REQUEST") /\ h.afterStop) =>
        Responded("RESPONSE", 0, 0, 0, 0)

\* a REQUEST handled right after an accepted STOP was answered with zeros
C15_Witness ==
    /\ Finished("REQUEST")
    /\ h.afterStop
    /\ mc.enabled
    /\ Responded("RESPONSE", 0, 0, 0, 0)

\* C16: no step of the handler changes the command window or the length of
\* the shared buffer: it writes inside the response window only.
C16_OnlyResponseWindowWritten ==
    [][(IrqEnter("none") \/ IrqClear \/ IrqDecode("none") \/ IrqSend("none")) =>
           /\ CmdWindow(mem') = CmdWindow(mem)
           /\ Len(mem') = MEMORY_SIZE]_vars

\* a GO was handled to its end: its frame is still in the command window
\* and its response in the response window
C16_Witness ==
    /\ Finished("GO")
    /\ h.own
    /\ from_bytes(CmdWindow(mem)).ok
    /\ from_code(from_bytes(CmdWindow(mem)).code) = "GO"
    /\ ~WindowZero
    /\ Len(mem) = MEMORY_SIZE

\* C17: ENABLE and DISABLE are answered by an ACK frame of four zeros in
\* either state; ENABLE leaves the speeds as they were and an enabled
\* controller enabled; DISABLE leaves a disabled controller disabled with
\* its speeds as they were.
C17_EnableDisableAlwaysAck ==
    /\ Dispatched("ENABLE") =>
        /\ resp = Frame("ACK", 0, 0, 0, 0)
        /\ mc.s = h.before
        /\ h.wasEnabled => mc.enabled
    /\ Dispatched("DISABLE") =>
        /\ resp = Frame("ACK", 0, 0, 0, 0)
        /\ ~h.wasEnabled => (~mc.enabled /\ mc.s = h.before)
    /\ (Finished("ENABLE") \/ Finished("DISABLE")) => Responded("ACK", 0, 0, 0, 0)

\* an ENABLE was handled while the controller was enabled with motors running
C17_Witness ==
    /\ Finished("ENABLE")
    /\ h.wasEnabled
    /\ mc.enabled
    /\ mc.s # ZeroSpeeds
    /\ Responded("ACK", 0, 0, 0, 0)

\* C18: PING and REQUEST leave the controller's flag and speeds as they
\* were; PING is answered by a PING frame of four 0.3, REQUEST by a RESPONSE
\* frame with the stored speeds.
C18_PingRequestReadOnly ==
    /\ (Dispatched("PING") \/ Finished("PING")) =>
        /\ mc.enabled = h.wasEnabled
        /\ mc.s = h.before
    /\ Dispatched("PING") => resp = Frame("PING", 3, 3, 3, 3)
    /\ Finished("PING") => Responded("PING", 3, 3, 3, 3)
    /\ (Dispatched("REQUEST") \/ Finished("REQUEST")) =>
        /\ mc.enabled = h.wasEnabled
        /\ mc.s = h.before
    /\ Dispatched("REQUEST") =>
        resp = Frame("RESPONSE", mc.s[1], mc.s[2], mc.s[3], mc.s[4])
    /\ Finished("REQUEST") =>
        Responded("RESPONSE", mc.s[1], mc.s[2], mc.s[3], mc.s[4])

\* a PING was handled while the motors were running
C18_Witness ==
    /\ Finished("PING")
    /\ mc.enabled
    /\ mc.s # ZeroSpeeds
    /\ Responded("PING", 3, 3, 3, 3)

\* C19: the handling of an event without the end-of-write flag consists of
\* one step that leaves the shared buffer, the controller and the
\* transaction counter as they were.
C19_ReadEventChangesNothing ==
    [][(IrqEnter("none") /\ "END_WRITE" \notin Head(irqQueue)) =>
           /\ pc' = "idle"
           /\ mem' = mem
           /\ mc' = mc
           /\ tx_count' = tx_count]_vars

\* an end-of-read event was handled after a command had been answered
C19_Witness ==
    /\ h.done
    /\ h.flags = {"END_READ"}
    /\ tx_count > 0
    /\ mc.enabled
    /\ ~WindowZero

====
